---- MODULE Spec2Model ----
(***************************************************************************)
(* dircmp.py: lists the files of a source tree (directory_l) that have no  *)
(* byte-identical counterpart in a target tree (directory_r).              *)
(*                                                                         *)
(* A name is a sequence of characters, a path a sequence of names (its     *)
(* segments), a file's content a sequence of bytes.  The file system is    *)
(* the set of directories, the map from file paths to contents and the set *)
(* of paths whose read permission has been taken away.                     *)
(***************************************************************************)
EXTENDS Integers, Sequences, FiniteSets, TLC

VARIABLES
  dirs,            \* file system: the directory paths
  files,           \* file system: file path -> content
  unreadable,      \* file system: paths that can be stat'ed but not read
  faults,          \* number of changes made to the trees while the run is on
  include_hidden,  \* args['all']
  directory_l,     \* args['directory_l']
  directory_r,     \* args['directory_r']
  pc,              \* position of the run
  size_file_path_tuple_list_l_sorted,   \* (1)
  size_to_file_path_list_dict_r,        \* (2)
  i,               \* number of candidates of (1) already resolved
  unmatched,       \* the list find_unmatched returns
  stdout,          \* the lines printed (the progress bar's characters left out)
  exit_status,     \* -1 while running
  comparisons,     \* history: per resolved candidate, the filecmp.cmp calls made
  scandir_errors,  \* history: directories os.walk could not list
  walks,           \* history: the roots enumerated so far
  walked,          \* result of a stand-alone get_directory_file_paths call
  run,             \* 1, or 2 for the re-run after a target file was removed
  prev_unmatched,  \* the first run's result, kept for the re-run
  removed          \* the target file removed between the runs

vars == <<dirs, files, unreadable, faults, include_hidden, directory_l,
          directory_r, pc, size_file_path_tuple_list_l_sorted,
          size_to_file_path_list_dict_r, i, unmatched, stdout, exit_status,
          comparisons, scandir_errors, walks, walked, run, prev_unmatched,
          removed>>

fsvars == <<dirs, files, unreadable, faults>>
argvars == <<include_hidden, directory_l, directory_r>>
rerunvars == <<run, prev_unmatched, removed>>

(***************************************************************************)
(* Bounds of the model.                                                    *)
(***************************************************************************)
MaxFiles == 3       \* files in the two trees together
MaxWalkFiles == 3   \* files in the trees of the stand-alone enumeration
MaxEnvFiles == 2    \* files in the two trees when the trees change under the run
MaxFaults == 1      \* changes made to the trees while the run is on

\* The contents a file may have: empty, the two one-byte contents, a longer one.
Contents == {<<>>, <<"x">>, <<"y">>, <<"x", "y">>}

(***************************************************************************)
(* Names and paths.                                                        *)
(***************************************************************************)
NameA == <<"a">>
NameHB == <<".", "b">>
NameC == <<"c">>
NameD == <<"d">>
NameHE == <<".", "e">>
NameL == <<"l">>
NameHL == <<".", "l">>
NameR == <<"r">>
NameHR == <<".", "r">>

\* The order in which a directory listing returns the names.
ScanOrder == <<NameA, NameHB, NameC, NameD, NameHE>>

\* Below a root: two plain files, a hidden file, a file in a hidden folder.
RelFiles == {<<NameA>>, <<NameHB>>, <<NameD, NameC>>, <<NameHE, NameA>>}
RelDirs == {<<>>, <<NameD>>, <<NameHE>>}

TreeFiles(root) == {root \o rel : rel \in RelFiles}
TreeDirs(root) == {root \o rel : rel \in RelDirs}

\* ord() of the characters that occur in paths.
Ord(c) ==
  CASE c = "." -> 46
    [] c = "/" -> 47
    [] c = "a" -> 97
    [] c = "b" -> 98
    [] c = "c" -> 99
    [] c = "d" -> 100
    [] c = "e" -> 101
    [] c = "l" -> 108
    [] c = "r" -> 114

\* The string of a path: its names joined by os.sep.
RECURSIVE PathStr(_)
PathStr(p) ==
  IF Len(p) = 0 THEN <<>>
  ELSE IF Len(p) = 1 THEN p[1]
  ELSE p[1] \o <<"/">> \o PathStr(Tail(p))

\* Python's < on strings.
RECURSIVE StrLess(_, _)
StrLess(s, t) ==
  IF Len(t) = 0 THEN FALSE
  ELSE IF Len(s) = 0 THEN TRUE
  ELSE IF Ord(s[1]) # Ord(t[1]) THEN Ord(s[1]) < Ord(t[1])
  ELSE StrLess(Tail(s), Tail(t))

\* f[0] == '.'
IsHiddenName(f) == f[1] = "."

\* os.path.isdir
isdir(path) == path \in dirs

\* os.path.getsize
getsize(file_path) == Len(files[file_path])

(***************************************************************************)
(* get_directory_file_paths: os.walk, top-down, with the hidden names      *)
(* taken out of both lists unless include_hidden.  os.walk is called       *)
(* without onerror, so a directory whose listing fails yields nothing and  *)
(* the walk goes on.                                                       *)
(***************************************************************************)
RECURSIVE get_directory_file_paths(_, _)
RECURSIVE walk_folders(_, _, _)
\* As get_directory_file_paths, the folder list left as os.walk gave it.
get_directory_file_paths_unpruned(top, hidden) ==
  IF top \notin dirs \/ top \in unreadable THEN <<>>
  ELSE
    LET all_files == SelectSeq(ScanOrder, LAMBDA f : Append(top, f) \in DOMAIN files)
        all_folders == SelectSeq(ScanOrder, LAMBDA f : Append(top, f) \in dirs)
        file_name_list ==
          IF ~hidden THEN SelectSeq(all_files, LAMBDA f : ~IsHiddenName(f))
          ELSE all_files
    IN [k \in 1..Len(file_name_list) |-> Append(top, file_name_list[k])]
         \o walk_folders(top, all_folders, hidden)

get_directory_file_paths(top, hidden) ==
  IF top \notin dirs \/ top \in unreadable THEN <<>>
  ELSE
    LET all_files == SelectSeq(ScanOrder, LAMBDA f : Append(top, f) \in DOMAIN files)
        all_folders == SelectSeq(ScanOrder, LAMBDA f : Append(top, f) \in dirs)
        file_name_list ==
          IF ~hidden THEN SelectSeq(all_files, LAMBDA f : ~IsHiddenName(f))
          ELSE all_files
        folder_name_list ==
          IF ~hidden THEN SelectSeq(all_folders, LAMBDA f : ~IsHiddenName(f))
          ELSE all_folders
    IN [k \in 1..Len(file_name_list) |-> Append(top, file_name_list[k])]
         \o walk_folders(top, folder_name_list, hidden)

walk_folders(directory_path, folder_name_list, hidden) ==
  IF folder_name_list = <<>> THEN <<>>
  ELSE get_directory_file_paths(Append(directory_path, Head(folder_name_list)), hidden)
         \o walk_folders(directory_path, Tail(folder_name_list), hidden)

\* The directories the same walk tries to list and cannot.
RECURSIVE walk_errors(_, _)
walk_errors(top, hidden) ==
  IF top \notin dirs THEN {}
  ELSE IF top \in unreadable THEN {top}
  ELSE UNION {walk_errors(Append(top, f), hidden) :
                f \in {g \in {ScanOrder[k] : k \in 1..Len(ScanOrder)} :
                         /\ Append(top, g) \in dirs
                         /\ (hidden \/ ~IsHiddenName(g))}}

\* sizes_paths: the (size, path) pair of every enumerated file.
sizes_paths(top, hidden) ==
  LET paths == get_directory_file_paths(top, hidden)
  IN [k \in 1..Len(paths) |-> <<getsize(paths[k]), paths[k]>>]

(***************************************************************************)
(* sorted(list, key=itemgetter(n)): a stable sort on item n of each tuple, *)
(* n counted from 0 as Python does.                                        *)
(***************************************************************************)
ItemLess(n, s, t) ==
  IF n = 0 THEN s[1] < t[1]
  ELSE StrLess(PathStr(s[2]), PathStr(t[2]))

RECURSIVE InsertSorted(_, _, _)
InsertSorted(n, sorted_list, item) ==
  IF sorted_list = <<>> THEN <<item>>
  ELSE IF ItemLess(n, item, Head(sorted_list)) THEN <<item>> \o sorted_list
  ELSE <<Head(sorted_list)>> \o InsertSorted(n, Tail(sorted_list), item)

RECURSIVE sorted(_, _)
sorted(list, n) ==
  IF list = <<>> THEN <<>>
  ELSE InsertSorted(n, sorted(SubSeq(list, 1, Len(list) - 1), n), list[Len(list)])

\* size_file_path_tuple_list_l_sorted as find_unmatched builds it.
sorted_candidates(top, hidden) == sorted(sizes_paths(top, hidden), 1)

(***************************************************************************)
(* dict_of_lists, and the defaultdict's d[key].                            *)
(***************************************************************************)
\* As defaultdict_getitem, the key's list made empty whether it was there or not.
defaultdict_getitem_reset(d, key) ==
  [k \in DOMAIN d \cup {key} |-> IF k = key THEN <<>> ELSE d[k]]

\* d[key] of a defaultdict(list): a missing key is added with an empty list.
defaultdict_getitem(d, key) ==
  IF key \in DOMAIN d THEN d
  ELSE [k \in DOMAIN d \cup {key} |-> IF k = key THEN <<>> ELSE d[k]]

\* As append_item, the key's list replaced by the one value.
append_item_overwrite(d, key, value) ==
  [k \in DOMAIN d \cup {key} |-> IF k = key THEN <<value>> ELSE d[k]]

\* d[key].append(value)
append_item(d, key, value) ==
  LET e == defaultdict_getitem(d, key)
  IN [e EXCEPT ![key] = Append(e[key], value)]

RECURSIVE dict_of_lists(_)
dict_of_lists(item_list) ==
  IF item_list = <<>> THEN <<>>
  ELSE LET last == item_list[Len(item_list)]
       IN append_item(dict_of_lists(SubSeq(item_list, 1, Len(item_list) - 1)),
                      last[1], last[2])

(***************************************************************************)
(* filecmp.cmp(f1, f2, shallow=False): stats both files, answers False on  *)
(* different sizes, else opens and reads both.  A missing file makes the   *)
(* stat raise, an unreadable one the open.                                 *)
(***************************************************************************)
\* As filecmp_cmp, the contents never read: equal sizes taken for equal files.
filecmp_cmp_shallow(f1, f2) ==
  IF f1 \notin DOMAIN files \/ f2 \notin DOMAIN files THEN "OSError"
  ELSE IF Len(files[f1]) # Len(files[f2]) THEN "False"
  ELSE "True"

filecmp_cmp(f1, f2) ==
  IF f1 \notin DOMAIN files \/ f2 \notin DOMAIN files THEN "OSError"
  ELSE IF Len(files[f1]) # Len(files[f2]) THEN "False"
  ELSE IF f1 \in unreadable \/ f2 \in unreadable THEN "OSError"
  ELSE IF files[f1] = files[f2] THEN "True"
  ELSE "False"

\* file_match: any() over a generator of filecmp.cmp calls.  calls lists the
\* calls made, in order: the target path and what the call gave.
RECURSIVE file_match(_, _)
\* As file_match, the list of all results built before any() looks at it.
file_match_eager(file_path_l, file_path_list_r) ==
  IF file_path_list_r = <<>> THEN [result |-> "False", calls |-> <<>>]
  ELSE LET file_path_r == Head(file_path_list_r)
           r == filecmp_cmp(file_path_l, file_path_r)
           rest == file_match(file_path_l, Tail(file_path_list_r))
       IN [result |-> IF r = "OSError" \/ rest.result = "OSError" THEN "OSError"
                      ELSE IF r = "True" THEN "True" ELSE rest.result,
           calls |-> <<[file_path_r |-> file_path_r, outcome |-> r]>> \o rest.calls]

\* As file_match, a comparison that raises taken for a comparison that fails.
file_match_swallow(file_path_l, file_path_list_r) ==
  IF file_path_list_r = <<>> THEN [result |-> "False", calls |-> <<>>]
  ELSE LET file_path_r == Head(file_path_list_r)
           r == filecmp_cmp(file_path_l, file_path_r)
       IN IF r = "True"
          THEN [result |-> r,
                calls |-> <<[file_path_r |-> file_path_r, outcome |-> r]>>]
          ELSE LET rest == file_match(file_path_l, Tail(file_path_list_r))
               IN [result |-> rest.result,
                   calls |-> <<[file_path_r |-> file_path_r, outcome |-> r]>>
                               \o rest.calls]

file_match(file_path_l, file_path_list_r) ==
  IF file_path_list_r = <<>> THEN [result |-> "False", calls |-> <<>>]
  ELSE LET file_path_r == Head(file_path_list_r)
           r == filecmp_cmp(file_path_l, file_path_r)
       IN IF r = "False"
          THEN LET rest == file_match(file_path_l, Tail(file_path_list_r))
               IN [result |-> rest.result,
                   calls |-> <<[file_path_r |-> file_path_r, outcome |-> r]>>
                               \o rest.calls]
          ELSE [result |-> r,
                calls |-> <<[file_path_r |-> file_path_r, outcome |-> r]>>]

(***************************************************************************)
(* Initial states.                                                         *)
(***************************************************************************)
Line(text, path) == <<text, path>>

InitRun ==
  /\ pc = "start"
  /\ size_file_path_tuple_list_l_sorted = <<>>
  /\ size_to_file_path_list_dict_r = <<>>
  /\ i = 0
  /\ unmatched = <<>>
  /\ stdout = <<>>
  /\ exit_status = -1
  /\ comparisons = <<>>
  /\ scandir_errors = {}
  /\ walks = <<>>
  /\ walked = [top |-> <<>>, paths |-> <<>>]
  /\ run = 1
  /\ prev_unmatched = <<>>
  /\ removed = [path |-> <<>>, content |-> <<>>]
  /\ unreadable = {}
  /\ faults = 0

\* Two trees holding at most max files, each root a directory or missing.
InitTrees(root_l, root_r, max, contents) ==
  /\ directory_l = root_l
  /\ directory_r = root_r
  /\ include_hidden \in BOOLEAN
  /\ \E valid_l \in BOOLEAN, valid_r \in BOOLEAN :
       /\ dirs = (IF valid_l THEN TreeDirs(root_l) ELSE {})
                   \cup (IF valid_r THEN TreeDirs(root_r) ELSE {})
       /\ \E S \in SUBSET ((IF valid_l THEN TreeFiles(root_l) ELSE {})
                             \cup (IF valid_r THEN TreeFiles(root_r) ELSE {})) :
            /\ Cardinality(S) <= max
            /\ files \in [S -> contents]

Init == InitRun /\ InitTrees(<<NameL>>, <<NameR>>, MaxFiles, Contents)

(***************************************************************************)
(* main and find_unmatched.                                                *)
(***************************************************************************)
\* As Main_Validate, directory_r never checked.
Main_Validate_left_only ==
  /\ pc = "start"
  /\ IF ~isdir(directory_l)
     THEN /\ stdout' = Append(stdout, Line("Invalid directory path: ", directory_l))
          /\ exit_status' = 2
          /\ pc' = "exited"
     ELSE /\ pc' = "create_list"
          /\ UNCHANGED <<stdout, exit_status>>
  /\ UNCHANGED <<fsvars, argvars, rerunvars, size_file_path_tuple_list_l_sorted,
                 size_to_file_path_list_dict_r, i, unmatched, comparisons,
                 scandir_errors, walks, walked>>

\* main, lines 104-110: both arguments are checked before anything is scanned.
Main_Validate ==
  /\ pc = "start"
  /\ IF ~isdir(directory_l)
     THEN /\ stdout' = Append(stdout, Line("Invalid directory path: ", directory_l))
          /\ exit_status' = 2
          /\ pc' = "exited"
     ELSE IF ~isdir(directory_r)
     THEN /\ stdout' = Append(stdout, Line("Invalid directory path: ", directory_r))
          /\ exit_status' = 2
          /\ pc' = "exited"
     ELSE /\ pc' = "create_list"
          /\ UNCHANGED <<stdout, exit_status>>
  /\ UNCHANGED <<fsvars, argvars, rerunvars, size_file_path_tuple_list_l_sorted,
                 size_to_file_path_list_dict_r, i, unmatched, comparisons,
                 scandir_errors, walks, walked>>

\* find_unmatched, lines 124-131: creates (1).
CreateList ==
  /\ pc = "create_list"
  /\ stdout' = Append(stdout, Line("Preprocessing...", <<>>))
  /\ size_file_path_tuple_list_l_sorted' = sorted_candidates(directory_l, include_hidden)
  /\ scandir_errors' = scandir_errors \cup walk_errors(directory_l, include_hidden)
  /\ walks' = Append(walks, directory_l)
  /\ pc' = "create_dict"
  /\ UNCHANGED <<fsvars, argvars, rerunvars, size_to_file_path_list_dict_r, i,
                 unmatched, exit_status, comparisons, walked>>

\* find_unmatched, lines 136-149: creates (2), then starts the comparison.
CreateDict ==
  /\ pc = "create_dict"
  /\ size_to_file_path_list_dict_r' = dict_of_lists(sizes_paths(directory_r, include_hidden))
  /\ scandir_errors' = scandir_errors \cup walk_errors(directory_r, include_hidden)
  /\ walks' = Append(walks, directory_r)
  /\ stdout' = Append(stdout, Line("Comparing files...", <<>>))
  /\ unmatched' = <<>>
  /\ i' = 0
  /\ pc' = "compare"
  /\ UNCHANGED <<fsvars, argvars, rerunvars, size_file_path_tuple_list_l_sorted,
                 exit_status, comparisons, walked>>

\* find_unmatched, lines 151-167: one pass of the loop.  An exception of
\* filecmp.cmp is caught nowhere: the interpreter prints a traceback and exits
\* with status 1.
CompareNext ==
  /\ pc = "compare"
  /\ i < Len(size_file_path_tuple_list_l_sorted)
  /\ LET size_l == size_file_path_tuple_list_l_sorted[i + 1][1]
         file_path_l == size_file_path_tuple_list_l_sorted[i + 1][2]
         d == defaultdict_getitem(size_to_file_path_list_dict_r, size_l)
         m == file_match(file_path_l, d[size_l])
     IN /\ size_to_file_path_list_dict_r' = d
        /\ comparisons' = Append(comparisons,
                                 [path |-> file_path_l, calls |-> m.calls,
                                  result |-> m.result])
        /\ IF m.result = "OSError"
           THEN /\ pc' = "crashed"
                /\ exit_status' = 1
                /\ UNCHANGED <<unmatched, i>>
           ELSE /\ unmatched' = IF m.result = "False"
                                THEN Append(unmatched, file_path_l)
                                ELSE unmatched
                /\ i' = i + 1
                /\ UNCHANGED <<pc, exit_status>>
  /\ UNCHANGED <<fsvars, argvars, rerunvars, size_file_path_tuple_list_l_sorted,
                 stdout, scandir_errors, walks, walked>>

\* find_unmatched, lines 169-171, and main, lines 115-120: the report.
Report ==
  /\ pc = "compare"
  /\ i = Len(size_file_path_tuple_list_l_sorted)
  /\ stdout' = IF unmatched = <<>>
               THEN Append(stdout, Line("No unmatched files.", <<>>))
               ELSE Append(stdout, Line("Unmatched files:", <<>>))
                      \o [k \in 1..Len(unmatched) |-> Line("", unmatched[k])]
  /\ exit_status' = 0
  /\ pc' = "done"
  /\ UNCHANGED <<fsvars, argvars, rerunvars, size_file_path_tuple_list_l_sorted,
                 size_to_file_path_list_dict_r, i, unmatched, comparisons,
                 scandir_errors, walks, walked>>

Next == Main_Validate \/ CreateList \/ CreateDict \/ CompareNext \/ Report

Spec == Init /\ [][Next]_vars

(***************************************************************************)
(* The trees changing while the run is on: a file or a folder below a      *)
(* root loses its read permission, or a file is deleted.                   *)
(***************************************************************************)
Running == pc \in {"start", "create_list", "create_dict", "compare"}

Revoke ==
  /\ Running
  /\ faults < MaxFaults
  /\ \E p \in ((dirs \ {directory_l, directory_r}) \cup DOMAIN files) \ unreadable :
       unreadable' = unreadable \cup {p}
  /\ faults' = faults + 1
  /\ UNCHANGED <<dirs, files, argvars, rerunvars, pc,
                 size_file_path_tuple_list_l_sorted,
                 size_to_file_path_list_dict_r, i, unmatched, stdout,
                 exit_status, comparisons, scandir_errors, walks, walked>>

Unlink ==
  /\ Running
  /\ faults < MaxFaults
  /\ \E p \in DOMAIN files :
       files' = [q \in DOMAIN files \ {p} |-> files[q]]
  /\ faults' = faults + 1
  /\ UNCHANGED <<dirs, unreadable, argvars, rerunvars, pc,
                 size_file_path_tuple_list_l_sorted,
                 size_to_file_path_list_dict_r, i, unmatched, stdout,
                 exit_status, comparisons, scandir_errors, walks, walked>>

InitEnv == InitRun /\ InitTrees(<<NameL>>, <<NameR>>, MaxEnvFiles, Contents)

NextEnv == Next \/ Revoke \/ Unlink

SpecEnv == InitEnv /\ [][NextEnv]_vars

(***************************************************************************)
(* A second run of the program after one file of the target tree has been  *)
(* removed.                                                                *)
(***************************************************************************)
Rerun ==
  /\ pc = "done"
  /\ run = 1
  /\ \E b \in DOMAIN files \cap TreeFiles(directory_r) :
       /\ removed' = [path |-> b, content |-> files[b]]
       /\ files' = [q \in DOMAIN files \ {b} |-> files[q]]
  /\ prev_unmatched' = unmatched
  /\ run' = 2
  /\ pc' = "start"
  /\ size_file_path_tuple_list_l_sorted' = <<>>
  /\ size_to_file_path_list_dict_r' = <<>>
  /\ i' = 0
  /\ unmatched' = <<>>
  /\ stdout' = <<>>
  /\ exit_status' = -1
  /\ comparisons' = <<>>
  /\ scandir_errors' = {}
  /\ walks' = <<>>
  /\ UNCHANGED <<dirs, unreadable, faults, argvars, walked>>

NextRerun == Next \/ Rerun

SpecRerun == Init /\ [][NextRerun]_vars

(***************************************************************************)
(* get_directory_file_paths on its own, the roots' names hidden or not.    *)
(***************************************************************************)
InitWalk ==
  /\ InitRun
  /\ \E root_l \in {<<NameL>>, <<NameHL>>}, root_r \in {<<NameR>>, <<NameHR>>} :
       InitTrees(root_l, root_r, MaxWalkFiles, {<<>>})

WalkTree ==
  /\ pc = "start"
  /\ \E top \in {directory_l, directory_r} :
       walked' = [top |-> top,
                  paths |-> get_directory_file_paths(top, include_hidden)]
  /\ pc' = "walked"
  /\ UNCHANGED <<fsvars, argvars, rerunvars, size_file_path_tuple_list_l_sorted,
                 size_to_file_path_list_dict_r, i, unmatched, stdout,
                 exit_status, comparisons, scandir_errors, walks>>

SpecWalk == InitWalk /\ [][WalkTree]_vars

(***************************************************************************)
(* What the properties speak of.                                           *)
(***************************************************************************)
SeqToSet(s) == {s[k] : k \in 1..Len(s)}

NoDuplicates(s) == \A j, k \in 1..Len(s) : s[j] = s[k] => j = k

UnderRoot(p, root) ==
  /\ Len(p) > Len(root)
  /\ SubSeq(p, 1, Len(root)) = root

\* Some segment of p below the root starts with '.'.
HiddenBelow(p, root) ==
  \E k \in (Len(root) + 1)..Len(p) : IsHiddenName(p[k])

\* Some segment of p, the root's included, starts with '.'.
HiddenAnywhere(p) == \E k \in 1..Len(p) : IsHiddenName(p[k])

\* The files a tree holds for the run: all of them, or the ones not hidden.
Discovered(root) ==
  {p \in DOMAIN files :
     /\ UnderRoot(p, root)
     /\ (include_hidden \/ ~HiddenBelow(p, root))}

ByteIdentical(p, q) ==
  /\ Len(files[p]) = Len(files[q])
  /\ \A k \in 1..Len(files[p]) : files[p][k] = files[q][k]

ReportLines == {"No unmatched files.", "Unmatched files:"}

NoReport == \A k \in 1..Len(stdout) : stdout[k][1] \notin ReportLines

\* Every path of the index, bucket after bucket.
IndexPaths ==
  UNION {SeqToSet(size_to_file_path_list_dict_r[s]) :
           s \in DOMAIN size_to_file_path_list_dict_r}

(***************************************************************************)
(* C1: when find_unmatched has returned, its result holds exactly the      *)
(* enumerated source files for which no enumerated target file has the     *)
(* same length and the same bytes, each once.                              *)
(***************************************************************************)
C1_UnmatchedExact ==
  pc = "done" =>
    /\ SeqToSet(unmatched) =
         {p \in Discovered(directory_l) :
            ~\E q \in Discovered(directory_r) : ByteIdentical(p, q)}
    /\ NoDuplicates(unmatched)

\* One target file satisfies two source files while a third is unmatched, or
\* (fewer files) one is matched and one is not.
C1_Witness ==
  /\ pc = "done"
  /\ unmatched # <<>>
  /\ \E p \in Discovered(directory_l) : p \notin SeqToSet(unmatched)

(***************************************************************************)
(* C2: the unmatched paths are listed in ascending order of file size.     *)
(***************************************************************************)
C2_AscendingSize ==
  pc = "done" =>
    \A j, k \in 1..Len(unmatched) :
      j < k => getsize(unmatched[j]) <= getsize(unmatched[k])

(***************************************************************************)
(* C3: the resolution loop leaves the index as dict_of_lists built it: no  *)
(* key is added and no bucket changes.                                     *)
(***************************************************************************)
C3_IndexUnchanged ==
  [][pc = "compare" =>
       size_to_file_path_list_dict_r' = size_to_file_path_list_dict_r]_vars

(***************************************************************************)
(* C3 as amended: the resolution loop leaves every bucket of the index as  *)
(* it is, and a key it adds is the size of the candidate looked up, with   *)
(* an empty list.                                                          *)
(***************************************************************************)
C3_BucketsUnchanged ==
  [][pc = "compare" =>
       /\ \A s \in DOMAIN size_to_file_path_list_dict_r :
            /\ s \in DOMAIN size_to_file_path_list_dict_r'
            /\ size_to_file_path_list_dict_r'[s] = size_to_file_path_list_dict_r[s]
       /\ \A s \in DOMAIN size_to_file_path_list_dict_r'
                     \ DOMAIN size_to_file_path_list_dict_r :
            /\ size_to_file_path_list_dict_r'[s] = <<>>
            /\ i < Len(size_file_path_tuple_list_l_sorted)
            /\ s = size_file_path_tuple_list_l_sorted[i + 1][1]]_vars

\* A candidate whose size no target file has was looked up, beside a bucket
\* that holds a file.
C3_Witness ==
  /\ pc \in {"compare", "done"}
  /\ \E s \in DOMAIN size_to_file_path_list_dict_r :
       size_to_file_path_list_dict_r[s] = <<>>
  /\ \E s \in DOMAIN size_to_file_path_list_dict_r :
       size_to_file_path_list_dict_r[s] # <<>>

(***************************************************************************)
(* C4: without include_hidden no yielded path has a segment, the root's    *)
(* own segments included, that starts with '.'; with include_hidden every  *)
(* file under the root is yielded.                                         *)
(***************************************************************************)
C4_NoHiddenSegment ==
  pc = "walked" =>
    /\ ~include_hidden =>
         \A p \in SeqToSet(walked.paths) : ~HiddenAnywhere(p)
    /\ include_hidden =>
         \A p \in DOMAIN files :
           UnderRoot(p, walked.top) => p \in SeqToSet(walked.paths)

(***************************************************************************)
(* C4 as amended: without include_hidden no yielded path has a segment     *)
(* below the supplied root that starts with '.' (the root's own segments   *)
(* are not looked at); with include_hidden every file under the root is    *)
(* yielded.                                                                *)
(***************************************************************************)
C4_NoHiddenSegmentBelowRoot ==
  pc = "walked" =>
    /\ ~include_hidden =>
         \A p \in SeqToSet(walked.paths) : ~HiddenBelow(p, walked.top)
    /\ include_hidden =>
         \A p \in DOMAIN files :
           UnderRoot(p, walked.top) => p \in SeqToSet(walked.paths)

\* A tree with a file in a hidden folder and a plain file, walked without
\* include_hidden: the plain file is yielded.
C4_Witness ==
  /\ pc = "walked"
  /\ ~include_hidden
  /\ walked.paths # <<>>
  /\ \E p \in DOMAIN files :
       /\ UnderRoot(p, walked.top)
       /\ Len(p) > Len(walked.top) + 1
       /\ IsHiddenName(p[Len(walked.top) + 1])

(***************************************************************************)
(* C5: a directory that cannot be read during the descent of either tree   *)
(* aborts the run: when the walk could not list a directory that holds a   *)
(* file, the run does not complete and prints no report.                   *)
(***************************************************************************)
C5_UnreadableDirectoryAborts ==
  (\E d \in scandir_errors : \E p \in DOMAIN files : UnderRoot(p, d)) =>
    (pc # "done" /\ NoReport)

(***************************************************************************)
(* C6: a comparison that fails with an I/O error ends the run, with a      *)
(* status other than 0 and no report; it is the last call made, and the    *)
(* source file it was made for is not in the unmatched list.               *)
(***************************************************************************)
C6_ComparisonErrorAborts ==
  /\ \A j \in 1..Len(comparisons) :
       \A k \in 1..Len(comparisons[j].calls) :
         comparisons[j].calls[k].outcome = "OSError" =>
           /\ pc = "crashed"
           /\ exit_status \notin {0, -1}
           /\ NoReport
           /\ j = Len(comparisons)
           /\ k = Len(comparisons[j].calls)
           /\ comparisons[j].path \notin SeqToSet(unmatched)
  /\ pc = "done" => exit_status = 0 /\ ~NoReport

\* A comparison was made on a file that had become unreadable or was gone.
C6_Witness ==
  /\ pc = "crashed"
  /\ comparisons # <<>>
  /\ \E k \in 1..Len(comparisons[Len(comparisons)].calls) :
       comparisons[Len(comparisons)].calls[k].outcome = "OSError"

(***************************************************************************)
(* C7: with a directory argument that is no directory, main reports it and *)
(* exits with a status other than 0 before anything is enumerated, sized   *)
(* or compared, and prints no report; a run that completes exits with 0.   *)
(***************************************************************************)
C7_InvalidDirectoryExits ==
  /\ (~isdir(directory_l) \/ ~isdir(directory_r)) =>
       /\ pc \in {"start", "exited"}
       /\ walks = <<>>
       /\ comparisons = <<>>
       /\ size_file_path_tuple_list_l_sorted = <<>>
       /\ size_to_file_path_list_dict_r = <<>>
       /\ NoReport
       /\ pc = "exited" =>
            /\ exit_status \notin {0, -1}
            /\ Len(stdout) = 1
            /\ stdout[1][1] = "Invalid directory path: "
            /\ ~isdir(stdout[1][2])
  /\ pc = "exited" => (~isdir(directory_l) \/ ~isdir(directory_r))
  /\ pc = "done" => exit_status = 0

\* The source is a directory, the target is not, and main has exited.
C7_Witness ==
  /\ pc = "exited"
  /\ isdir(directory_l)
  /\ ~isdir(directory_r)

(***************************************************************************)
(* C8: when source file A matched target file B, then after B is removed   *)
(* and the comparison run again A is unmatched, and every other source     *)
(* file is classified as before.                                           *)
(***************************************************************************)
C8_RemovalFlipsOnlyA ==
  (pc = "done" /\ run = 2 /\ removed.path \notin DOMAIN files
     /\ (include_hidden \/ ~HiddenBelow(removed.path, directory_r))) =>
    \A a \in Discovered(directory_l) :
      (a \notin SeqToSet(prev_unmatched) /\ files[a] = removed.content) =>
        /\ a \in SeqToSet(unmatched)
        /\ \A o \in Discovered(directory_l) \ {a} :
             o \in SeqToSet(unmatched) <=> o \in SeqToSet(prev_unmatched)

(***************************************************************************)
(* C8 as amended: after target file B is removed and the comparison run    *)
(* again, a source file is unmatched iff it was unmatched before, or it is *)
(* byte-identical to B and no remaining target file is byte-identical to   *)
(* B.  So A turns unmatched exactly when B was the only target file with   *)
(* A's content, the source files with that content turn with it, and all   *)
(* others are classified as before.                                        *)
(***************************************************************************)
C8_RemovalFlipsCopiesOfB ==
  (pc = "done" /\ run = 2 /\ removed.path \notin DOMAIN files) =>
    \A a \in Discovered(directory_l) :
      a \in SeqToSet(unmatched) <=>
        \/ a \in SeqToSet(prev_unmatched)
        \/ /\ files[a] = removed.content
           /\ ~\E q \in Discovered(directory_r) : files[q] = removed.content

\* A matched in the first run and is unmatched in the second.
C8_Witness ==
  /\ pc = "done"
  /\ run = 2
  /\ \E a \in Discovered(directory_l) :
       /\ a \notin SeqToSet(prev_unmatched)
       /\ a \in SeqToSet(unmatched)
       /\ files[a] = removed.content

(***************************************************************************)
(* C9: the calls made for a candidate are a prefix of its size's bucket,   *)
(* in the bucket's order; no call before the last one found a match; the   *)
(* calls stop short of the bucket's end only on a match; and a candidate   *)
(* whose size no target file has is compared with nothing and is           *)
(* unmatched.                                                              *)
(***************************************************************************)
C9_StopAtFirstMatch ==
  \A j \in 1..Len(comparisons) :
    LET file_path_l == comparisons[j].path
        calls == comparisons[j].calls
        bucket == size_to_file_path_list_dict_r[getsize(file_path_l)]
        n == Len(calls)
    IN /\ n <= Len(bucket)
       /\ \A k \in 1..n : calls[k].file_path_r = bucket[k]
       /\ \A k \in 1..(n - 1) : ~ByteIdentical(file_path_l, bucket[k])
       /\ n < Len(bucket) => (n >= 1 /\ ByteIdentical(file_path_l, bucket[n]))
       /\ (\A q \in Discovered(directory_r) : getsize(q) # getsize(file_path_l)) =>
            (n = 0 /\ file_path_l \in SeqToSet(unmatched))

\* A candidate matched the first file of a bucket of two: one call was made.
C9_Witness ==
  \E j \in 1..Len(comparisons) :
    /\ Len(comparisons[j].calls) = 1
    /\ Len(size_to_file_path_list_dict_r[getsize(comparisons[j].path)]) = 2

(***************************************************************************)
(* C10: nothing is resolved before the index is built, and from the first  *)
(* lookup on the buckets together hold exactly the enumerated target       *)
(* files, each once and under its size.                                    *)
(***************************************************************************)
C10_IndexCompleteBeforeResolution ==
  /\ pc \in {"start", "create_list", "create_dict"} =>
       /\ comparisons = <<>>
       /\ unmatched = <<>>
       /\ size_to_file_path_list_dict_r = <<>>
  /\ pc \in {"compare", "done"} =>
       /\ IndexPaths = Discovered(directory_r)
       /\ \A s \in DOMAIN size_to_file_path_list_dict_r :
            /\ NoDuplicates(size_to_file_path_list_dict_r[s])
            /\ \A q \in SeqToSet(size_to_file_path_list_dict_r[s]) : getsize(q) = s

\* The loop is about to resolve its first candidate against an index with a
\* bucket of two.
C10_Witness ==
  /\ pc = "compare"
  /\ i = 0
  /\ size_file_path_tuple_list_l_sorted # <<>>
  /\ \E s \in DOMAIN size_to_file_path_list_dict_r :
       Len(size_to_file_path_list_dict_r[s]) = 2

====
